---- MODULE Spec2Model ----
(***************************************************************************)
(* Model of ds4ml.attribute (src/ds4ml/attribute.py): one column of data   *)
(* ("Attribute") with its learned pattern.                                 *)
(*                                                                         *)
(* Numbers.  Every number the program computes (raw integers and floats,   *)
(* epoch seconds, string lengths, min/max, bin edges, samples) is held as  *)
(* an integer count of 1/Scale, Scale == DEFAULT_BIN_SIZE * 100, so that   *)
(* two-decimal floats, the half unit numpy adds to a degenerate range and  *)
(* the twenty equal-width bin edges are all exact.  Floating-point         *)
(* rounding noise is not modelled.                                         *)
(*                                                                         *)
(* None and absent attributes are the empty tuple; a present value v is    *)
(* <<v>>.  Strings are TLA+ strings; their Python ordering and their       *)
(* reading as dates are tables over the vocabulary the inputs are drawn    *)
(* from.  Input columns are homogeneous (all int, all float or all str)    *)
(* and hold no missing entry.                                              *)
(***************************************************************************)
EXTENDS Integers, Sequences, FiniteSets, TLC

VARIABLES self, record, ret

vars == <<self, record, ret>>

----------------------------------------------------------------------------
(* Bounds of the inputs *)

MaxLen == 2        \* longest raw column
MaxDomain == 2     \* longest category list given to the domain setter
MaxSize == 2       \* largest size given to random()
MaxTally == 11     \* longest column of digit counts given to decimals()
MaxDigits == 3     \* decimal digit counts are 1..MaxDigits

----------------------------------------------------------------------------
(* Program constants and the fixed-point unit *)

DEFAULT_BIN_SIZE == 20

Scale == DEFAULT_BIN_SIZE * 100

Half == Scale \div 2

DaySeconds == 24 * 60 * 60

DayUnits == DaySeconds * Scale

None == <<>>

Some(v) == <<v>>

Val(o) == o[1]

\* a present value that is a Python str (min(domain) of a list of strings)
StrVal(v) == <<v, "str">>

IsStr(o) == Len(o) = 2

----------------------------------------------------------------------------
(* Sequences *)

Range(s) == {s[i] : i \in DOMAIN s}

SetMin(S) == CHOOSE x \in S : \A y \in S : x <= y

SetMax(S) == CHOOSE x \in S : \A y \in S : x >= y

RECURSIVE SumSeq(_)
SumSeq(s) == IF s = <<>> THEN 0 ELSE Head(s) + SumSeq(Tail(s))

Occurrences(s, v) == Cardinality({i \in DOMAIN s : s[i] = v})

SeqsUpTo(S, n) == UNION {[1..k -> S] : k \in 1..n}

RECURSIVE Gcd(_, _)
Gcd(a, b) == IF b = 0 THEN a ELSE Gcd(b, a % b)

Frac(n, d) == IF n = 0 THEN <<0, 1>> ELSE <<n \div Gcd(n, d), d \div Gcd(n, d)>>

----------------------------------------------------------------------------
(* Strings: the vocabulary, Python's ordering of it, dateutil's reading *)

Words == <<"F", "M", "ab">>

DayLabels == <<"12/31/1969", "1/1/1970", "1/2/1970", "1/3/1970", "1/4/1970",
               "1/5/1970">>

IsoDates == <<"1970-01-02", "1970-01-03 12:00">>

\* every string of the model, in Python's (code point) order
Collation == <<"1/1/1970", "1/2/1970", "1/3/1970", "1/4/1970", "1/5/1970",
               "12/31/1969", "1970-01-02", "1970-01-03 12:00", "F", "M", "ab">>

StrRank(s) == CHOOSE i \in DOMAIN Collation : Collation[i] = s

\* dateutil.parser.parse(timestr) - epoch, as <<day, second of the day>>
ParseTable ==
    [i \in DOMAIN DayLabels |-> <<DayLabels[i], <<i - 2, 0>>>>]
    \o << <<"1970-01-02", <<1, 0>>>>, <<"1970-01-03 12:00", <<2, DaySeconds \div 2>>>> >>

is_datetime(value) == \E i \in DOMAIN ParseTable : ParseTable[i][1] = value

parse(timestr) ==
    LET i == CHOOSE j \in DOMAIN ParseTable : ParseTable[j][1] = timestr
    IN  ParseTable[i][2]

_to_seconds(timestr) == (parse(timestr)[1] * DaySeconds + parse(timestr)[2]) * Scale

_date_formatter(seconds) == DayLabels[(seconds \div DayUnits) + 2]

len(s) == Len(s) * Scale

----------------------------------------------------------------------------
(* The object *)

AttributePattern ==
    [_type |-> None, categorical |-> FALSE, _min |-> None, _max |-> None,
     _decimals |-> None, bins |-> None, prs |-> None,
     _pattern_generated |-> FALSE, _bin_size |-> DEFAULT_BIN_SIZE]

\* A Series of `values` (dtype `kind`) with the class defaults of
\* AttributePattern; _step, _counts and _items are not yet attributes.
NewAttribute(name, kind, values) ==
    [name |-> name, kind |-> kind, values |-> values,
     _type |-> AttributePattern._type,
     categorical |-> AttributePattern.categorical,
     _min |-> AttributePattern._min, _max |-> AttributePattern._max,
     _decimals |-> AttributePattern._decimals,
     bins |-> AttributePattern.bins, prs |-> AttributePattern.prs,
     _pattern_generated |-> AttributePattern._pattern_generated,
     _bin_size |-> AttributePattern._bin_size,
     _step |-> None, _counts |-> None, _items |-> None]

is_numerical(s) == s._type = Some("integer") \/ s._type = Some("float")

type(s) == s._type

\* order of an index of values of this attribute's type
SortKey(s, v) == IF s._type = Some("string") THEN StrRank(v) ELSE v

----------------------------------------------------------------------------
(* pandas / numpy primitives *)

infer_dtype(s) ==
    IF s.values = <<>> THEN "empty"
    ELSE CASE s.kind = "int" -> "integer"
           [] s.kind = "float" -> "floating"
           [] OTHER -> "string"

\* Series.unique(): the distinct values in order of first appearance
RECURSIVE unique(_)
unique(v) ==
    IF v = <<>> THEN <<>>
    ELSE LET u == unique(SubSeq(v, 1, Len(v) - 1))
         IN  IF v[Len(v)] \in Range(u) THEN u ELSE Append(u, v[Len(v)])

is_unique(v) == Len(unique(v)) = Len(v)

\* ascending order of a set under an injective integer key (a function)
RECURSIVE SortBy(_, _)
SortBy(S, key) ==
    IF S = {} THEN <<>>
    ELSE LET m == CHOOSE x \in S : \A y \in S : key[x] <= key[y]
         IN  <<m>> \o SortBy(S \ {m}, key)

\* Series.value_counts(): <<value, count>> pairs, most frequent first; the
\* order among equally frequent values is not fixed by pandas, so this is
\* the set of the orders it may give.
value_counts(v) ==
    LET U == Range(v)
        n == Cardinality(U)
    IN  {[i \in 1..n |-> <<p[i], Occurrences(v, p[i])>>] :
            p \in {q \in [1..n -> U] :
                     /\ \A i, j \in 1..n : i # j => q[i] # q[j]
                     /\ \A i \in 1..(n - 1) :
                           Occurrences(v, q[i]) >= Occurrences(v, q[i + 1])}}

\* Series.mode()[0]: the smallest of the most frequent values
mode0(s) ==
    LET U == Range(s.values)
        top == {x \in U : \A y \in U :
                   Occurrences(s.values, x) >= Occurrences(s.values, y)}
        key(x) == IF s.kind = "str" THEN StrRank(x) ELSE x
    IN  CHOOSE x \in top : \A y \in top : key(x) <= key(y)

NaN == "NaN"

\* Series.fillna(fill): only an object column can hold the missing marker
fillna(s, fill) ==
    IF s.kind = "str"
    THEN [i \in DOMAIN s.values |-> IF s.values[i] = NaN THEN fill ELSE s.values[i]]
    ELSE s.values

\* the edges numpy.histogram gives bins=n over range=(lo, hi): n + 1 equally
\* spaced edges; a range with lo = hi is widened by 0.5 on both sides
HistEdges(lo, hi, n) ==
    LET first == IF lo = hi THEN lo - Half ELSE lo
        last == IF lo = hi THEN hi + Half ELSE hi
        w == last - first
    IN  [i \in 1..(n + 1) |->
            first + (i - 1) * (w \div n) + ((i - 1) * (w % n)) \div n]

\* the counts numpy.histogram gives: bin i is [edge i, edge i+1), the last
\* bin is closed on the right, values outside the range are dropped
HistCounts(v, edges) ==
    LET n == Len(edges) - 1
    IN  [i \in 1..n |->
            Cardinality({j \in DOMAIN v :
                /\ edges[i] <= v[j]
                /\ IF i = n THEN v[j] <= edges[n + 1] ELSE v[j] < edges[i + 1]})]

\* utils.normalize_distribution: counts / sum(counts), as reduced fractions
normalize_distribution(counts) ==
    LET total == SumSeq(counts)
    IN  [i \in DOMAIN counts |->
            IF total = 0 THEN <<0, 1>> ELSE Frac(counts[i], total)]

\* int(x): truncation toward zero
int(x) == IF x >= 0 THEN (x \div Scale) * Scale ELSE -(((-x) \div Scale) * Scale)

----------------------------------------------------------------------------
(* decimals *)

\* str(value) of a float with at most two decimals shows one digit ("4.0",
\* "1.5") or two ("2.25")
decimals_of(value) == IF value % (Scale \div 10) = 0 THEN 1 ELSE 2

\* decimals() with the threshold test written >= 0.8
decimals_mut(vc) ==
    LET total == SumSeq([i \in DOMAIN vc |-> vc[i][2]])
        head(k) == SumSeq([i \in 1..k |-> vc[i][2]])
        slot == CHOOSE k \in DOMAIN vc :
                   /\ 10 * head(k) >= 8 * total
                   /\ \A j \in 1..(k - 1) : ~(10 * head(j) >= 8 * total)
    IN  SetMax({vc[i][1] : i \in 1..slot})

\* the loop of decimals() over the tally vc of digit counts
decimals(vc) ==
    LET total == SumSeq([i \in DOMAIN vc |-> vc[i][2]])
        head(k) == SumSeq([i \in 1..k |-> vc[i][2]])
        slot == CHOOSE k \in DOMAIN vc :
                   /\ 10 * head(k) > 8 * total
                   /\ \A j \in 1..(k - 1) : ~(10 * head(j) > 8 * total)
    IN  SetMax({vc[i][1] : i \in 1..slot})

----------------------------------------------------------------------------
(* Pattern computation from the raw values *)

_set_domain(s) ==
    IF s._type = Some("string") THEN
        LET items == [i \in DOMAIN s.values |-> len(s.values[i])]
            mn == int(SetMin(Range(items)))
            mx == int(SetMax(Range(items)))
        IN  [s EXCEPT !._items = Some(items), !._min = Some(mn), !._max = Some(mx),
                      !.bins = IF s.categorical THEN Some(unique(s.values))
                               ELSE Some(<<mn, mx>>)]
    ELSE IF s._type = Some("datetime") THEN
        LET secs == [i \in DOMAIN s.values |-> _to_seconds(s.values[i])]
            mn == SetMin(Range(secs))
            mx == SetMax(Range(secs))
            u == [s EXCEPT !.values = secs, !.kind = "int"]
        IN  IF s.categorical THEN [u EXCEPT !.bins = Some(unique(secs))]
            ELSE [u EXCEPT !._min = Some(mn), !._max = Some(mx),
                           !.bins = Some(<<mn, mx>>),
                           !._step = Some((mx - mn) \div s._bin_size)]
    ELSE
        LET mn == SetMin(Range(s.values))
            mx == SetMax(Range(s.values))
            u == [s EXCEPT !._min = Some(mn), !._max = Some(mx)]
        IN  IF s.categorical THEN [u EXCEPT !.bins = Some(unique(s.values))]
            ELSE [u EXCEPT !.bins = Some(<<mn, mx>>),
                           !._step = Some((mx - mn) \div s._bin_size)]

\* the categorical branch of _set_distribution
CategoricalDistribution(s) ==
    LET index == Range(s.values) \cup Range(Val(s.bins))
        sorted == SortBy(index, [x \in index |-> SortKey(s, x)])
        counts == [i \in DOMAIN sorted |-> Occurrences(s.values, sorted[i])]
    IN  [s EXCEPT !._counts = Some(counts),
                  !.prs = Some(normalize_distribution(counts)),
                  !.bins = IF s._type = Some("datetime")
                           THEN Some([i \in DOMAIN sorted |-> _date_formatter(sorted[i])])
                           ELSE Some(sorted)]

\* the histogram branch of _set_distribution over the range (lo, hi)
HistogramDistribution(s, v, lo, hi) ==
    LET edges == HistEdges(lo, hi, s._bin_size)
        hist == HistCounts(v, edges)
        u == [s EXCEPT !.bins = Some(SubSeq(edges, 1, Len(edges) - 1)),
                       !._counts = Some(hist),
                       !.prs = Some(normalize_distribution(hist))]
    IN  IF s._type = Some("integer")
        THEN [u EXCEPT !._min = Some(int(Val(s._min))), !._max = Some(int(Val(s._max)))]
        ELSE u

\* _set_distribution: the attribute it leaves and the exception it raises
_set_distribution(s) ==
    IF s.categorical THEN [self |-> CategoricalDistribution(s), err |-> ""]
    ELSE IF s._type = Some("string") THEN
        IF s._items = None THEN [self |-> s, err |-> "AttributeError"]
        ELSE [self |-> HistogramDistribution(s, Val(s._items),
                          SetMin(Range(Val(s._items))), SetMax(Range(Val(s._items)))),
              err |-> ""]
    ELSE IF Val(s._min) > Val(s._max) THEN [self |-> s, err |-> "ValueError"]
    ELSE [self |-> HistogramDistribution(s, s.values, Val(s._min), Val(s._max)),
          err |-> ""]

\* vc: the tally value_counts() gave decimals()
_calculate_pattern(s, vc) ==
    LET inferred == infer_dtype(s)
        t == IF inferred = "integer" THEN "integer"
             ELSE IF inferred = "floating" \/ inferred = "mixed-integer-float" THEN "float"
             ELSE IF inferred \in {"string", "mixed-integer", "mixed"} THEN
                 IF \A i \in DOMAIN s.values : is_datetime(s.values[i])
                 THEN "datetime" ELSE "string"
             ELSE inferred
        s1 == [s EXCEPT !._type = Some(t)]
        s2 == [s1 EXCEPT !.values = fillna(s1, mode0(s1))]
        s3 == IF t = "datetime"
              THEN [s2 EXCEPT !.values =
                       [i \in DOMAIN s2.values |->
                           _date_formatter(_to_seconds(s2.values[i]))]]
              ELSE s2
        s4 == IF t = "float" THEN [s3 EXCEPT !._decimals = Some(decimals(vc))] ELSE s3
        s5 == [s4 EXCEPT !.categorical =
                  s4.categorical \/ (t = "string" /\ ~is_unique(s4.values))]
    IN  \* mode()[0] of a column without values raises, after _type was set
        IF s.values = <<>> THEN s1
        ELSE _set_distribution(_set_domain(s5)).self

\* the body of set_pattern under `if not self._pattern_generated`
generate_pattern(s, pattern, categorical, vc) ==
    LET s1 == [s EXCEPT !.categorical = categorical]
        s2 == IF pattern = None THEN _calculate_pattern(s1, vc)
              ELSE LET p == Val(pattern)
                       a == [s1 EXCEPT !._type = p.type]
                       b == IF type(a) = Some("float")
                            THEN [a EXCEPT !._decimals = p.decimals] ELSE a
                   IN  [b EXCEPT !.categorical = p.categorical,
                                 !._min = p.min, !._max = p.max,
                                 !.bins = Some(p.bins), !.prs = Some(p.prs)]
    IN  IF pattern = None /\ s.values = <<>> THEN s2
        ELSE [s2 EXCEPT !._pattern_generated = TRUE]

\* the exception set_pattern raises: the KeyError of mode()[0] when the
\* pattern is to be computed from a column without values
set_pattern_raises(s, pattern) ==
    IF ~s._pattern_generated /\ pattern = None /\ s.values = <<>>
    THEN "KeyError" ELSE ""

\* set_pattern with the categorical argument assigned before the latch is read
set_pattern_unlatched(s, pattern, categorical, vc) ==
    IF ~s._pattern_generated THEN generate_pattern(s, pattern, categorical, vc)
    ELSE [s EXCEPT !.categorical = categorical]

\* set_pattern(pattern, categorical=categorical); pattern is None or <<record>>
set_pattern(s, pattern, categorical, vc) ==
    IF ~s._pattern_generated THEN generate_pattern(s, pattern, categorical, vc)
    ELSE s

\* to_pattern(); bins.tolist() and prs.tolist() need bins and prs to be arrays
to_pattern(s) ==
    [name |-> s.name, type |-> s._type, categorical |-> s.categorical,
     min |-> s._min, max |-> s._max,
     decimals |-> IF type(s) = Some("float") THEN s._decimals ELSE None,
     bins |-> Val(s.bins), prs |-> Val(s.prs)]

----------------------------------------------------------------------------
(* Domain *)

domain(s) == IF s.categorical THEN Val(s.bins) ELSE <<s._min, s._max>>

\* domain.setter: the attribute it leaves and the exception it raises
domain_setter(s, dom) ==
    LET d == IF s._type = Some("datetime")
             THEN [i \in DOMAIN dom |-> _to_seconds(dom[i])] ELSE dom
        lo == CHOOSE x \in Range(d) : \A y \in Range(d) : SortKey(s, x) <= SortKey(s, y)
        hi == CHOOSE x \in Range(d) : \A y \in Range(d) : SortKey(s, x) >= SortKey(s, y)
        lengths == [i \in DOMAIN d |-> len(d[i])]
        u == IF (is_numerical(s) /\ s.categorical /\ Len(d) > 2) \/ s.categorical THEN
                 [s EXCEPT !._min = IF s._type = Some("string") THEN StrVal(lo) ELSE Some(lo),
                           !._max = IF s._type = Some("string") THEN StrVal(hi) ELSE Some(hi),
                           !.bins = Some(d)]
             ELSE IF is_numerical(s) THEN
                 [s EXCEPT !._min = Some(d[1]), !._max = Some(d[2]),
                           !._step = Some((d[2] - d[1]) \div s._bin_size),
                           !.bins = Some(<<d[1], d[2]>>)]
             ELSE IF s._type = Some("string") THEN
                 [s EXCEPT !._min = Some(SetMin(Range(lengths))),
                           !._max = Some(SetMax(Range(lengths))),
                           !.bins = Some(d)]
             ELSE s
    IN  _set_distribution(u)

----------------------------------------------------------------------------
(* Reading the pattern *)

\* counts() with bins=None: returns self._counts, which is no attribute of
\* the object before _set_distribution has run
counts(s) ==
    IF s._counts = None THEN [val |-> <<>>, err |-> "AttributeError"]
    ELSE [val |-> Val(s._counts), err |-> ""]

\* bisect.bisect_right(a, x, lo, hi): the binary search, whatever the order
\* of a
RECURSIVE bisect_right(_, _, _, _)
bisect_right(a, x, lo, hi) ==
    IF lo < hi THEN
        LET mid == (lo + hi) \div 2
        IN  IF x < a[mid + 1] THEN bisect_right(a, x, lo, mid)
            ELSE bisect_right(a, x, mid + 1, hi)
    ELSE lo

\* the index bin_indexes() gives one value x, or the exception of the lookup
bin_index(s, x) ==
    IF s.categorical THEN
        \* the values of a datetime attribute are seconds, its bins are labels
        IF s._type = Some("datetime") \/ x \notin Range(Val(s.bins))
        THEN [val |-> -1, err |-> "KeyError"]
        ELSE [val |-> SetMax({i \in DOMAIN Val(s.bins) : Val(s.bins)[i] = x}) - 1,
              err |-> ""]
    ELSE IF s.kind = "str" THEN [val |-> -1, err |-> "TypeError"]
    ELSE [val |-> bisect_right(Val(s.bins), x, 0, Len(Val(s.bins))) - 1,
          err |-> ""]

bin_indexes(s) ==
    LET each == [i \in DOMAIN s.values |-> bin_index(s, s.values[i])]
        bad == {i \in DOMAIN each : each[i].err # ""}
    IN  IF bad # {} THEN [val |-> <<>>, err |-> each[SetMin(bad)].err]
        ELSE [val |-> [i \in DOMAIN each |-> each[i].val], err |-> ""]

\* int((v - min) / (step + 1e-8)): with a positive step the small delta
\* takes an exact multiple of the step down to the bin below it; with a
\* negative step (max < min) it makes the divisor smaller in size, and an
\* exact multiple stays
encode_code(v, mn, step) ==
    LET d == v - mn
    IN  IF d = 0 THEN 0
        ELSE IF step > 0 THEN
            IF d > 0 THEN (d - 1) \div step ELSE -(((-d) - 1) \div step)
        ELSE IF d > 0 THEN -(d \div (-step)) ELSE (-d) \div (-step)

\* encode(data): data is a Series [kind, values], or None for the own values
encode(s, data) ==
    LET given == IF data = None THEN [kind |-> s.kind, values |-> s.values]
                 ELSE Val(data)
        conv == IF data # None /\ type(s) = Some("datetime") THEN
                    IF given.kind = "str"
                       /\ \A i \in DOMAIN given.values : is_datetime(given.values[i])
                    THEN [kind |-> "int",
                          values |-> [i \in DOMAIN given.values |->
                                         _to_seconds(given.values[i])]]
                    ELSE [kind |-> "int",
                          values |-> [i \in DOMAIN given.values |-> int(given.values[i])]]
                ELSE given
        binsAreStr == type(s) \in {Some("string"), Some("datetime")}
        same(v, c) == (conv.kind = "str") = binsAreStr /\ v = c
        \* df[c] = ... for c in bins: one column for each distinct bin
        columns == unique(Val(s.bins))
    IN  IF s.categorical THEN
            [val |-> [b \in DOMAIN columns |->
                        <<columns[b],
                          [i \in DOMAIN conv.values |->
                              IF same(conv.values[i], columns[b]) THEN 1 ELSE 0]>>],
             err |-> ""]
        ELSE IF type(s) # Some("string") THEN
            IF conv.values = <<>> THEN [val |-> <<>>, err |-> ""]
            \* _step is no attribute of the object before _set_domain set it
            ELSE IF s._step = None THEN [val |-> <<>>, err |-> "AttributeError"]
            ELSE [val |-> [i \in DOMAIN conv.values |->
                             <<encode_code(conv.values[i], Val(s._min), Val(s._step)),
                               s._bin_size>>],
                  err |-> ""]
        ELSE [val |-> <<>>, err |-> "ValueError"]

----------------------------------------------------------------------------
(* Synthesis *)

\* random.uniform(a, b) is a + (b - a) * random(): any value from a to b,
\* a included and, by rounding, possibly b
uniform(a, b) == (IF a <= b THEN a ELSE b)..(IF a <= b THEN b ELSE a)

RECURSIVE Pow10(_)
Pow10(d) == IF d = 0 THEN 1 ELSE 10 * Pow10(d - 1)

\* rounding to the nearest multiple of q, halves to the even multiple
round(x, q) ==
    LET f == x \div q
        r == x % q
    IN  IF 2 * r < q THEN f * q
        ELSE IF 2 * r > q THEN (f + 1) * q
        ELSE IF f % 2 = 0 THEN f * q ELSE (f + 1) * q

\* utils.randomize_string(length): some string of that length
randomize_string(length) == <<"randstr", length>>

\* the two arguments _random_sample_at(index) gives uniform() for a
\* non-categorical attribute
sample_interval(s, index) ==
    LET length == Len(Val(s.bins))
    IN  IF index < length - 1
        THEN <<Val(s.bins)[index + 1], Val(s.bins)[index + 2]>>
        ELSE <<Val(s.bins)[length], Val(s._max)>>

\* the values _random_sample_at(index) may return
_random_sample_at(s, index) ==
    IF s.categorical THEN {Val(s.bins)[index + 1]}
    ELSE uniform(sample_interval(s, index)[1], sample_interval(s, index)[2])

\* the post-processing choice() applies to a sampled value
choice_post(s, x) ==
    IF type(s) = Some("datetime") THEN
        IF ~s.categorical THEN _date_formatter(x) ELSE x
    ELSE IF type(s) = Some("float") THEN round(x, Scale \div Pow10(Val(s._decimals)))
    ELSE IF type(s) = Some("integer") THEN round(x, Scale)
    ELSE IF type(s) = Some("string") THEN
        IF ~s.categorical THEN randomize_string(int(x)) ELSE x
    ELSE x

\* the values choice_post takes on the samples from lo to hi of a
\* non-categorical attribute.  Each post-processing (the day of a second,
\* rounding to a multiple, truncation to a length) never decreases when the
\* sample grows and leaves its own results unchanged, so they are the days,
\* multiples or lengths from that of lo to that of hi.
choice_post_range(s, lo, hi) ==
    IF type(s) = Some("datetime") THEN
        {DayLabels[d + 2] : d \in (lo \div DayUnits)..(hi \div DayUnits)}
    ELSE IF type(s) = Some("float") THEN
        LET q == Scale \div Pow10(Val(s._decimals))
        IN  {k * q : k \in (round(lo, q) \div q)..(round(hi, q) \div q)}
    ELSE IF type(s) = Some("integer") THEN
        {k * Scale : k \in (round(lo, Scale) \div Scale)..(round(hi, Scale) \div Scale)}
    ELSE IF type(s) = Some("string") THEN
        {randomize_string(k * Scale) : k \in (int(lo) \div Scale)..(int(hi) \div Scale)}
    ELSE lo..hi

\* the indexes numpy.random.choice(len(prs), p=prs) may draw
prs_indexes(s) == {i - 1 : i \in {j \in DOMAIN Val(s.prs) : Val(s.prs)[j][1] > 0}}

\* the values choice(indexes=[index]) may return: choice_post of the values
\* _random_sample_at(index) may return
choice(s, index) ==
    IF s.categorical THEN {choice_post(s, x) : x \in _random_sample_at(s, index)}
    ELSE LET a == sample_interval(s, index)[1]
             b == sample_interval(s, index)[2]
         IN  choice_post_range(s, IF a <= b THEN a ELSE b, IF a <= b THEN b ELSE a)

\* np.random.shuffle(rands): the orders the shuffle may leave
shuffle(rands) ==
    LET n == Len(rands)
    IN  {[k \in 1..n |-> rands[p[k]]] :
            p \in {q \in [1..n -> 1..n] : \A i, j \in 1..n : i # j => q[i] # q[j]}}

\* the results random(size) may return; size 0 stands for size=None
random(s, size) ==
    LET n == IF size # 0 THEN size ELSE Len(s.values)
    IN  IF s._min = None \/ IsStr(s._min)
        THEN {[val |-> <<>>, err |-> "TypeError"]}
        ELSE IF Val(s._min) # Val(s._max) /\ n = 0
        THEN {[val |-> <<>>, err |-> "ZeroDivisionError"]}
        ELSE
        LET mn == Val(s._min)
            mx == Val(s._max)
            arange == IF mn = mx THEN [k \in 1..n |-> mn]
                      ELSE [k \in 1..n |-> mn + ((k - 1) * (mx - mn)) \div n]
        IN  IF s._type = Some("string") THEN
                {[val |-> [k \in 1..n |-> randomize_string(length)], err |-> ""] :
                    length \in IF mn = mx THEN {mn}
                               ELSE {l \in {mn + j * Scale : j \in 0..((mx - mn) \div Scale)} :
                                        l < mx}}
            ELSE IF s._type = Some("integer") THEN
                {[val |-> [k \in 1..n |-> int(rands[k])], err |-> ""] :
                    rands \in shuffle(arange)}
            ELSE IF s._type = Some("datetime") THEN
                {[val |-> [k \in 1..n |-> _date_formatter(rands[k])], err |-> ""] :
                    rands \in shuffle(arange)}
            ELSE {[val |-> rands, err |-> ""] : rands \in shuffle(arange)}

----------------------------------------------------------------------------
(* Inputs *)

\* the values of the raw columns: 1 and 3; 1.5 and 5.25; two words and two
\* dates, one of them with a time of day
RawInts == {Scale, 3 * Scale}

RawFloats == {(h * Scale) \div 100 : h \in {150, 525}}

RawStrings == {"F", "ab", "1/2/1970", "1970-01-03 12:00"}

\* the columns an Attribute is built from, the one without values included
Columns ==
    {[kind |-> "none", values |-> <<>>]}
    \cup {[kind |-> "int", values |-> v] : v \in SeqsUpTo(RawInts, MaxLen)}
    \cup {[kind |-> "float", values |-> v] : v \in SeqsUpTo(RawFloats, MaxLen)}
    \cup {[kind |-> "str", values |-> v] : v \in SeqsUpTo(RawStrings, MaxLen)}

\* the values a caller writes in a domain or gives to encode()
IntValues == {Scale, 2 * Scale, 3 * Scale}

FloatValues == {(h * Scale) \div 100 : h \in {150, 225, 525}}

DateInputs == {"1/2/1970"} \cup Range(IsoDates)

Vocabulary(s) ==
    CASE s._type = Some("integer") -> IntValues
      [] s._type = Some("float") -> FloatValues
      [] s._type = Some("datetime") -> DateInputs
      [] OTHER -> Range(Words)

Ordinal(s, x) == IF s._type = Some("datetime") THEN _to_seconds(x) ELSE x

\* the lists given to the domain setter: a category list for a categorical
\* or string attribute, a pair otherwise (in either order: the setter does
\* not test it)
DomainInputs(s) ==
    IF s.categorical \/ s._type = Some("string")
    THEN SeqsUpTo(Vocabulary(s), MaxDomain)
    ELSE [1..2 -> Vocabulary(s)]

\* the data given to encode(): None, or a Series of one value
EncodeInputs(s) ==
    {None} \cup {Some([kind |-> IF s._type \in {Some("string"), Some("datetime")}
                                 THEN "str" ELSE s.kind,
                        values |-> <<x>>]) : x \in Vocabulary(s)}

\* a zero step divides by the 1e-8 alone, and the quotient is beyond the
\* integers of the model unless the value is at min
EncodeRepresentable(s, data) ==
    IF s.categorical \/ s._type = Some("string") \/ s._step = None THEN TRUE
    ELSE IF Val(s._step) # 0 THEN TRUE
    ELSE \A x \in Range(IF data = None THEN s.values ELSE Val(data).values) :
            (IF data = None THEN x ELSE Ordinal(s, x)) = Val(s._min)

\* the tallies value_counts() may give decimals() on the first set_pattern
Tallies(s) ==
    IF s.kind = "float" /\ ~s._pattern_generated
    THEN value_counts([i \in DOMAIN s.values |-> decimals_of(s.values[i])])
    ELSE {<<>>}

\* the last call made on the attribute: its name, argument, result, exception
Ret(op, arg, val, err) == [op |-> op, arg |-> arg, val |-> val, err |-> err]

----------------------------------------------------------------------------
(* Actions *)

\* the columns a second Attribute is built from
OtherColumns == {c \in Columns : Len(c.values) <= 1}

\* __init__ has run Series.__init__; its set_pattern call comes next
Init ==
    /\ self \in {NewAttribute("col", c.kind, c.values) : c \in Columns}
    /\ record = None
    /\ ret = Ret("init", <<>>, <<>>, "")

\* set_pattern(categorical=c): the call that ends __init__ (it raises on a
\* column without values, and no object is made), or a later call on the
\* object
SetPatternFromData ==
    /\ self._pattern_generated \/ ret.op \in {"init", "new"}
    /\ \E categorical \in BOOLEAN, vc \in Tallies(self) :
          /\ self' = set_pattern(self, None, categorical, vc)
          /\ ret' = Ret("set_pattern", <<>>, <<>>, set_pattern_raises(self, None))
    /\ UNCHANGED record

\* set_pattern(record, categorical=c) on an object __init__ returned
SetPatternFromRecord ==
    /\ self._pattern_generated
    /\ record # None
    /\ \E categorical \in BOOLEAN :
          /\ self' = set_pattern(self, record, categorical, <<>>)
          /\ ret' = Ret("set_pattern", <<"record">>, <<>>,
                        set_pattern_raises(self, record))
    /\ UNCHANGED record

\* a second Attribute, to be given the record of the first: __init__ has
\* run Series.__init__ on its column.  It is built and given the record;
\* to_pattern() and the domain setter are followed on the first one only.
NewAttributeForRecord ==
    /\ self._pattern_generated
    /\ self.name = "col"
    /\ record # None
    /\ self' \in {NewAttribute("other", c.kind, c.values) : c \in OtherColumns}
    /\ ret' = Ret("new", <<>>, <<>>, "")
    /\ UNCHANGED record

ToPattern ==
    /\ self._pattern_generated
    /\ self.name = "col"
    /\ record' = Some(to_pattern(self))
    /\ ret' = Ret("to_pattern", <<>>, <<>>, "")
    /\ UNCHANGED self

\* attribute.domain = dom
SetDomain ==
    /\ self._pattern_generated
    /\ self.name = "col"
    /\ \E dom \in DomainInputs(self) :
          LET r == domain_setter(self, dom)
          IN  /\ self' = r.self
              /\ ret' = Ret("domain", dom, <<>>, r.err)
    /\ UNCHANGED record

Next ==
    \/ SetPatternFromData
    \/ SetPatternFromRecord
    \/ NewAttributeForRecord
    \/ ToPattern
    \/ SetDomain

Spec == Init /\ [][Next]_vars

----------------------------------------------------------------------------
(* decimals() on its own: every short column of decimal digit counts *)

\* the column self.map(decimals_of) with tally[d] values of d digits, equal
\* digit counts together.  decimals() reads the column through value_counts()
\* alone, which depends on the order of the values only among equally
\* frequent ones, and value_counts gives every order of those.
DigitColumn(tally) ==
    LET upto(d) == SumSeq([e \in 1..d |-> tally[e]])
    IN  [i \in 1..upto(MaxDigits) |->
            CHOOSE d \in 1..MaxDigits : upto(d - 1) < i /\ i <= upto(d)]

\* the columns of digit counts of float attributes of 1..MaxTally values
DigitColumns ==
    {DigitColumn(tally) :
        tally \in {f \in [1..MaxDigits -> 0..MaxTally] :
                      SumSeq(f) \in 1..MaxTally}}

InitDecimals ==
    /\ self = NewAttribute("col", "float", <<>>)
    /\ record = None
    /\ \E digits \in DigitColumns :
          ret = Ret("decimals_of", <<>>, digits, "")

Decimals ==
    /\ ret.op = "decimals_of"
    /\ \E vc \in value_counts(ret.val) :
          ret' = Ret("decimals", <<ret.val, vc>>, decimals(vc), "")
    /\ UNCHANGED <<self, record>>

NextDecimals == Decimals

SpecDecimals == InitDecimals /\ [][NextDecimals]_vars

----------------------------------------------------------------------------
(* Properties *)

HasRaw(s) == s.values # <<>>

\* an attribute that computed its pattern from its raw values
Computed(s) == s._pattern_generated /\ HasRaw(s)

Pattern(s) == <<s._type, s.categorical, s._min, s._max, s.bins, s.prs, s._counts>>

RECURSIVE LcmDen(_)
LcmDen(p) ==
    IF p = <<>> THEN 1
    ELSE LET l == LcmDen(Tail(p)) IN (l \div Gcd(l, Head(p)[2])) * Head(p)[2]

\* the fractions of p add up to 1
SumsToOne(p) ==
    SumSeq([i \in DOMAIN p |-> p[i][1] * (LcmDen(p) \div p[i][2])]) = LcmDen(p)

NoDuplicates(q) == \A i, j \in DOMAIN q : i # j => q[i] # q[j]

Ascending(q) == \A i \in 1..(Len(q) - 1) : q[i] <= q[i + 1]

\* set_pattern(record) was the last call on the attribute
Loaded == ret.op = "set_pattern" /\ ret.arg = <<"record">>

\* C1: the record to_pattern() returns holds the attribute's type,
\* categorical, min, max, bins and prs, and an Attribute other than the one
\* the record was taken from holds the same six once set_pattern(record)
\* has been called on it (so its own to_pattern() agrees with the record).
C1_RoundTrip ==
    /\ ret.op = "to_pattern" =>
          /\ Val(record).type = self._type
          /\ Val(record).categorical = self.categorical
          /\ Val(record).min = self._min
          /\ Val(record).max = self._max
          /\ Some(Val(record).bins) = self.bins
          /\ Some(Val(record).prs) = self.prs
    /\ (Loaded /\ self.name # Val(record).name) =>
          /\ self._type = Val(record).type
          /\ self.categorical = Val(record).categorical
          /\ self._min = Val(record).min
          /\ self._max = Val(record).max
          /\ self.bins = Some(Val(record).bins)
          /\ self.prs = Some(Val(record).prs)
          /\ to_pattern(self).bins = Val(record).bins
          /\ to_pattern(self).prs = Val(record).prs

\* C2: the latch of an attribute is never cleared, every set_pattern call
\* that returns leaves it set, and once it is set a set_pattern call (with
\* or without a record, whatever its categorical argument) changes none of
\* type, categorical, min, max, bins, prs and counts.
C2_Latch ==
    [][/\ (self._pattern_generated /\ ret'.op # "new") => self'._pattern_generated
       /\ (ret'.op = "set_pattern" /\ ret'.err = "") => self'._pattern_generated
       /\ (self._pattern_generated /\ ret'.op = "set_pattern") =>
             Pattern(self') = Pattern(self)]_vars

\* a set_pattern call was made on an integer attribute whose domain had been
\* overridden, and the overridden minimum is still in place
C2_Witness ==
    /\ ret.op = "set_pattern"
    /\ Computed(self)
    /\ self._type = Some("integer")
    /\ ~self.categorical
    /\ Val(self._min) # SetMin(Range(self.values))

\* the indexes of bins a caller may give choice(indexes=...)
CallerIndexes(s) == {i - 1 : i \in DOMAIN Val(s.bins)}

SuppliedData(s) == EncodeInputs(s) \ {None}

\* C3: an Attribute with no raw values can be made and given a record: the
\* calls that make it do not raise, and once set_pattern(record) has been
\* called it holds the bins and prs of the record, counts() returns the
\* per-bin counts, encode(data) returns the codes (or, for a non-categorical
\* string, the ValueError it documents), choice() returns a value for
\* every bin prs can draw, and random(size) returns for a non-categorical
\* attribute.
C3_PatternOnlySufficient ==
    /\ (self.values = <<>> /\ ret.op = "set_pattern") => ret.err = ""
    /\ (self.values = <<>> /\ Loaded) =>
          /\ self._pattern_generated
          /\ self.bins = Some(Val(record).bins)
          /\ self.prs = Some(Val(record).prs)
          /\ counts(self).err = ""
          /\ \A data \in SuppliedData(self) :
                EncodeRepresentable(self, data) =>
                    encode(self, data).err \in {"", "ValueError"}
          /\ \A index \in prs_indexes(self) : choice(self, index) # {}
          /\ ~self.categorical =>
                \A size \in 1..MaxSize : \A r \in random(self, size) : r.err = ""

\* C4: whenever the pattern exists, counts() returns the counts, and bins,
\* prs and counts() have the same length.
C4_Aligned ==
    self._pattern_generated =>
        /\ counts(self).err = ""
        /\ Len(Val(self.bins)) = Len(Val(self.prs))
        /\ Len(Val(self.prs)) = Len(counts(self).val)

\* C5: on an attribute built from raw values (domain overrides included)
\* bin_indexes() returns, every index is in 0..len(bins), a categorical
\* index is the position of the one bin equal to the value, and an index of
\* a non-categorical attribute is the largest i with bins[i] <= value.
C5_IndexCoverage ==
    Computed(self) =>
        /\ bin_indexes(self).err = ""
        /\ \A i \in DOMAIN self.values :
              LET x == self.values[i]
                  k == bin_indexes(self).val[i]
                  b == Val(self.bins)
              IN  /\ k \in 0..Len(b)
                  /\ IF self.categorical
                     THEN /\ k < Len(b)
                          /\ b[k + 1] = x
                          /\ Cardinality({j \in DOMAIN b : b[j] = x}) = 1
                     ELSE /\ k < Len(b)
                          /\ b[k + 1] <= x
                          /\ \A j \in DOMAIN b : b[j] <= x => j <= k + 1

\* C6: the bins of a non-categorical attribute built from raw values are in
\* ascending order and lie within [min, max], also when min = max.
C6_BinsWithinDomain ==
    (Computed(self) /\ ~self.categorical) =>
        /\ Ascending(Val(self.bins))
        /\ Val(self._min) <= Val(self.bins)[1]
        /\ Val(self.bins)[Len(Val(self.bins))] <= Val(self._max)

\* a value choice() returned is in the domain of the attribute
InDomain(s, v) ==
    IF s.categorical THEN v \in Range(Val(s.bins))
    ELSE CASE s._type = Some("datetime") ->
                 Val(s._min) <= _to_seconds(v) /\ _to_seconds(v) <= Val(s._max)
           [] s._type = Some("string") ->
                 Val(s._min) <= v[2] /\ v[2] <= Val(s._max)
           [] OTHER -> Val(s._min) <= v /\ v <= Val(s._max)

\* C7: every value choice() returns, for an index drawn from prs or any
\* index of bins given by the caller, is in [min, max] (a generated string:
\* its length) or, for a categorical attribute, one of the bins.
C7_ChoiceInDomain ==
    self._pattern_generated =>
        \A index \in prs_indexes(self) \cup CallerIndexes(self) :
            \A v \in choice(self, index) : InDomain(self, v)

\* C8: after domain = [lo, hi], lo <= hi, on a non-categorical integer, float
\* or datetime attribute that holds raw values, the domain getter returns
\* [lo, hi] (datetime: in epoch seconds) and counts is the histogram of the
\* raw values over it: its sum is the number of raw values in [lo, hi].
C8_DomainInstalled ==
    (/\ ret.op = "domain"
     /\ HasRaw(self)
     /\ ~self.categorical
     /\ self._type \in {Some("integer"), Some("float"), Some("datetime")}
     /\ Ordinal(self, ret.arg[1]) <= Ordinal(self, ret.arg[2])) =>
        LET lo == Ordinal(self, ret.arg[1])
            hi == Ordinal(self, ret.arg[2])
        IN  /\ domain(self) = <<Some(lo), Some(hi)>>
            /\ SumSeq(counts(self).val) =
                  Cardinality({i \in DOMAIN self.values :
                                  lo <= self.values[i] /\ self.values[i] <= hi})
            /\ self.prs = Some(normalize_distribution(counts(self).val))

\* the bin label of a category of the attribute
Label(s, c) ==
    IF s._type = Some("datetime") THEN _date_formatter(c) ELSE c

\* C9: after a domain override on a categorical attribute that holds raw
\* values, every category the override adds has a count of 0, every
\* observed category has its number of occurrences, the counts add up to
\* the number of raw values, no bin is repeated and prs adds up to 1.
C9_CategoricalComplete ==
    (ret.op = "domain" /\ HasRaw(self) /\ self.categorical) =>
        LET b == Val(self.bins)
            c == counts(self).val
            given == {Ordinal(self, ret.arg[i]) : i \in DOMAIN ret.arg}
            seen == Range(self.values)
        IN  /\ Len(b) = Len(c)
            /\ \A x \in given \ seen :
                  \E i \in DOMAIN b : b[i] = Label(self, x) /\ c[i] = 0
            /\ \A x \in seen :
                  \E i \in DOMAIN b :
                     b[i] = Label(self, x) /\ c[i] = Occurrences(self.values, x)
            /\ SumSeq(c) = Len(self.values)
            /\ NoDuplicates(b)
            /\ SumsToOne(Val(self.prs))

\* the digit counts of the column decimals() was called on
DigitsOf(r) == r.arg[1]

\* the share of the values with at most d digits is at least 80%
Covers(digits, d) ==
    10 * Cardinality({i \in DOMAIN digits : digits[i] <= d}) >= 8 * Len(digits)

\* C10 as stated: decimals() returns the smallest digit count d such that
\* at least 80% of the values have at most d decimal digits.
C10_SmallestCovering ==
    ret.op = "decimals" =>
        /\ Covers(DigitsOf(ret), ret.val)
        /\ \A d \in 1..(ret.val - 1) : ~Covers(DigitsOf(ret), d)

\* C10 amended: decimals() walks the digit counts from the most frequent
\* down, stops at the first whose cumulative share is strictly more than
\* 80% (before the end of the tally when the share is reached early), and
\* returns the largest digit count walked; so at least 80% of the values
\* have at most that many digits.
C10_MostFrequentPrefix ==
    ret.op = "decimals" =>
        LET vc == ret.arg[2]
            n == Len(DigitsOf(ret))
            share(k) == Cardinality({i \in DOMAIN DigitsOf(ret) :
                            \E j \in 1..k : vc[j][1] = DigitsOf(ret)[i]})
        IN  /\ \E k \in DOMAIN vc :
                  /\ 10 * share(k) > 8 * n
                  /\ 10 * share(k - 1) <= 8 * n
                  /\ ret.val \in {vc[j][1] : j \in 1..k}
                  /\ \A j \in 1..k : vc[j][1] <= ret.val
            /\ Covers(DigitsOf(ret), ret.val)

\* eight values of eleven have one digit, one has two, two have three: the
\* walk takes one digit (8/11), then three digits (10/11, more than 80%) and
\* stops before the two-digit count; decimals() returned three, although
\* nine values of eleven have at most two digits
C10_Witness ==
    /\ ret.op = "decimals"
    /\ DigitsOf(ret) = <<1, 1, 1, 1, 1, 1, 1, 1, 2, 3, 3>>
    /\ Len(ret.arg[2]) = 3
    /\ ret.val = 3
    /\ Covers(DigitsOf(ret), 2)

====
